---- MODULE Spec2Model ----
(***************************************************************************)
(* The file-backed TTL cache of ccxt-mcp (src/src/cache.ts, CacheManager). *)
(*                                                                         *)
(* The state is the cache directory (one file per key plus the metadata    *)
(* file), the clock read by Date.now(), the sweep timer and the getOrSet   *)
(* calls that are suspended at `await operation()`.  Every other method is *)
(* synchronous (fs.*Sync) and therefore one atomic step.                   *)
(***************************************************************************)
EXTENDS Integers, Sequences, FiniteSets, TLC

\* ------------------------------------------------------------------ bounds
\* Date.now() ranges over 0..MaxTime (one unit stands for a span of ms).
MaxTime == 2
\* ttl arguments supplied by callers range over 0..MaxTtl (or are omitted).
MaxTtl == 1

\* defaultTTL of the instance (constructor argument, 5 minutes by default),
\* on the scale of the model clock
DefaultTTL == 2

\* CacheManagers the singleton accessor constructs over a run, at most
MaxManagers == 3

\* ------------------------------------------------------------- JS values
Null == [t |-> "null"]
Undefined == [t |-> "undefined"]
Str(s) == [t |-> "string", v |-> s]
Num(n) == [t |-> "number", v |-> n]

\* the values callers and producers hand to the cache
DataValues == {Null, Str("A"), Str("B")}
\* the errors a producer can reject with
Errors == {"E1", "E2"}
\* cache keys in use
Keys == {"k1", "k2"}
\* the getOrSet calls that can be in flight at once
Calls == {1, 2}
\* a ttl argument: <<>> when omitted (undefined), <<n>> when supplied
TtlArgs == {<<>>} \cup {<<n>> : n \in 0..MaxTtl}

\* JSON.stringify / JSON.parse on the values above
JSONstringifyValue(v) ==
    IF v.t = "null" THEN "null" ELSE "\"" \o v.v \o "\""
JSONparseValue(text) ==
    CHOOSE v \in DataValues : JSONstringifyValue(v) = text

\* ------------------------------------------------------------ file system
MetadataFile == ".metadata.json"
getCacheFilePath(key) == key \o ".json"
FileNames == {getCacheFilePath(k) : k \in Keys} \cup {MetadataFile}

NoFile == [kind |-> "none"]
\* a truncated or otherwise unparsable file
Garbage == [kind |-> "garbage"]

\* JSON.stringify(entry, null, 2) of a CacheEntry
JSONstringifyEntry(entry) ==
    [kind |-> "json", data |-> JSONstringifyValue(entry.data),
     timestamp |-> entry.timestamp, ttl |-> entry.ttl]
\* JSON.parse succeeds on what JSON.stringify wrote, throws on garbage
Parsable(content) == content.kind = "json"
JSONparseEntry(content) ==
    [data |-> JSONparseValue(content.data),
     timestamp |-> content.timestamp, ttl |-> content.ttl]
\* JSON.stringify(metadata, null, 2) of a CacheMetadata
JSONstringifyMetadata(metadata) ==
    [kind |-> "json", totalEntries |-> metadata.totalEntries,
     lastCleanup |-> metadata.lastCleanup]

existsSync(fs, path) == fs[path] # NoFile
\* file.endsWith(".json") && file !== ".metadata.json" over readdirSync
EntryFiles(fs) == {f \in FileNames : existsSync(fs, f) /\ f # MetadataFile}

VARIABLES
    now,              \* Date.now()
    dirExists,        \* the cache directory exists
    files,            \* FileNames -> content (NoFile when absent)
    cleanupInterval,  \* TRUE while the setInterval timer is scheduled
    calls,            \* the getOrSet calls and where they are
    written,          \* per key: the latest successful write since the key was last removed by delete/clear
    last,             \* the operation that led to this state and what it returned
    order,            \* the executeFutureOrder call and where it is
    publicExchangeInstances,  \* CcxtMcpServer.publicExchangeInstances: key -> instance
    constructed,      \* per key: how many public instances were ever constructed
    cacheInstance,    \* the module's singleton: 0 for null, or a manager of `managers`
    managers          \* every CacheManager getCacheManager constructed, in order

\* the state of the server and of the singleton, which no cache method touches
serverVars == <<order, publicExchangeInstances, constructed, cacheInstance, managers>>

\* the state of the cache, which no server method modelled here touches
cacheVars == <<now, dirExists, files, cleanupInterval, calls, written, last>>

vars == <<now, dirExists, files, cleanupInterval, calls, written, last,
          order, publicExchangeInstances, constructed, cacheInstance, managers>>

\* ------------------------------------------------- CacheManager's methods
\* Each method is an operator from the directory before the call to the
\* directory after it, with what the method returns and what it logs.

\* what readdirSync and writeFileSync throw when the directory is gone
readdirSyncError(d) == IF d THEN "" ELSE "ENOENT"
writeFileSyncError(d) == IF d THEN "" ELSE "ENOENT"

\* a catch block that lets the error out again
Rethrown(error) == error

\* try { ... } catch (error) { console.error(...) }: the error a method's try
\* block raised ends in the log and the method returns normally
Caught(error) == ""

\* ttl || this.defaultTTL
EffectiveTtl(ttl) ==
    IF Len(ttl) = 1 /\ ttl[1] # 0 THEN ttl[1] ELSE DefaultTTL

\* updateMetadata(): recount the entry files and write the metadata file;
\* readdirSync throws when the directory is gone and the catch logs it
updateMetadata(d, fs, t) ==
    IF ~d THEN fs
    ELSE [fs EXCEPT ![MetadataFile] =
            JSONstringifyMetadata([totalEntries |-> Cardinality(EntryFiles(fs)),
                                   lastCleanup |-> t])]

\* delete(key) that unlinks every entry file of the directory
deleteEveryEntry(fs, key) ==
    IF existsSync(fs, getCacheFilePath(key))
    THEN [f \in FileNames |-> IF f \in EntryFiles(fs) THEN NoFile ELSE fs[f]]
    ELSE fs

\* delete(key) that empties the entry file instead of unlinking it
deleteTruncates(fs, key) ==
    IF existsSync(fs, getCacheFilePath(key))
    THEN [fs EXCEPT ![getCacheFilePath(key)] = Garbage]
    ELSE fs

\* delete(key)
delete(fs, key) ==
    IF existsSync(fs, getCacheFilePath(key))
    THEN [fs EXCEPT ![getCacheFilePath(key)] = NoFile]
    ELSE fs

\* get(key) that rewrites a live entry with the time of the read
getTouches(fs, key, t) ==
    LET filePath == getCacheFilePath(key) IN
    IF ~existsSync(fs, filePath)
    THEN [ret |-> Null, fs |-> fs, log |-> "Cache miss"]
    ELSE IF ~Parsable(fs[filePath])
    THEN [ret |-> Null, fs |-> fs, log |-> "Failed to read cache"]
    ELSE LET entry == JSONparseEntry(fs[filePath])
             age == t - entry.timestamp
         IN IF age > entry.ttl
            THEN [ret |-> Null, fs |-> delete(fs, key), log |-> "Cache expired"]
            ELSE [ret |-> entry.data,
                  fs |-> [fs EXCEPT ![filePath] =
                            JSONstringifyEntry([entry EXCEPT !.timestamp = t])],
                  log |-> "Cache hit"]

\* get(key) that unlinks an entry file it cannot parse
getDropsCorrupt(fs, key, t) ==
    LET filePath == getCacheFilePath(key) IN
    IF ~existsSync(fs, filePath)
    THEN [ret |-> Null, fs |-> fs, log |-> "Cache miss"]
    ELSE IF ~Parsable(fs[filePath])
    THEN [ret |-> Null, fs |-> delete(fs, key), log |-> "Failed to read cache"]
    ELSE LET entry == JSONparseEntry(fs[filePath])
             age == t - entry.timestamp
         IN IF age > entry.ttl
            THEN [ret |-> Null, fs |-> delete(fs, key), log |-> "Cache expired"]
            ELSE [ret |-> entry.data, fs |-> fs, log |-> "Cache hit"]

\* get(key) that answers null for an expired entry and leaves its file
getNoPurge(fs, key, t) ==
    LET filePath == getCacheFilePath(key) IN
    IF ~existsSync(fs, filePath) \/ ~Parsable(fs[filePath])
    THEN [ret |-> Null, fs |-> fs, log |-> "Cache miss"]
    ELSE LET entry == JSONparseEntry(fs[filePath]) IN
         IF t - entry.timestamp > entry.ttl
         THEN [ret |-> Null, fs |-> fs, log |-> "Cache expired"]
         ELSE [ret |-> entry.data, fs |-> fs, log |-> "Cache hit"]

\* get(key) that treats an entry as expired from age = ttl on
getAtTtl(fs, key, t) ==
    LET filePath == getCacheFilePath(key) IN
    IF ~existsSync(fs, filePath)
    THEN [ret |-> Null, fs |-> fs, log |-> "Cache miss"]
    ELSE IF ~Parsable(fs[filePath])
    THEN [ret |-> Null, fs |-> fs, log |-> "Failed to read cache"]
    ELSE LET entry == JSONparseEntry(fs[filePath])
             age == t - entry.timestamp
         IN IF age >= entry.ttl
            THEN [ret |-> Null, fs |-> delete(fs, key), log |-> "Cache expired"]
            ELSE [ret |-> entry.data, fs |-> fs, log |-> "Cache hit"]

\* get(key)
get(fs, key, t) ==
    LET filePath == getCacheFilePath(key) IN
    IF ~existsSync(fs, filePath)
    THEN [ret |-> Null, fs |-> fs, log |-> "Cache miss"]
    ELSE IF ~Parsable(fs[filePath])
    THEN [ret |-> Null, fs |-> fs, log |-> "Failed to read cache"]
    ELSE LET entry == JSONparseEntry(fs[filePath])
             age == t - entry.timestamp
         IN IF age > entry.ttl
            THEN [ret |-> Null, fs |-> delete(fs, key), log |-> "Cache expired"]
            ELSE [ret |-> entry.data, fs |-> fs, log |-> "Cache hit"]

\* set(key, data, ttl) that opens the file with the exclusive flag "wx": an
\* existing entry file is not overwritten
setNoOverwrite(d, fs, key, data, ttl, t) ==
    LET entry == [data |-> data, timestamp |-> t, ttl |-> EffectiveTtl(ttl)] IN
    IF ~d \/ existsSync(fs, getCacheFilePath(key))
    THEN [fs |-> fs, ok |-> d, log |-> "Cache set"]
    ELSE [fs |-> updateMetadata(d, [fs EXCEPT ![getCacheFilePath(key)] =
                                        JSONstringifyEntry(entry)], t),
          ok |-> TRUE, log |-> "Cache set"]

\* set(key, data, ttl) whose catch block is empty: a failed write leaves no
\* line in the log
setQuiet(d, fs, key, data, ttl, t) ==
    LET entry == [data |-> data, timestamp |-> t, ttl |-> EffectiveTtl(ttl)] IN
    IF ~d
    THEN [fs |-> fs, ok |-> FALSE, log |-> ""]
    ELSE [fs |-> updateMetadata(d, [fs EXCEPT ![getCacheFilePath(key)] =
                                        JSONstringifyEntry(entry)], t),
          ok |-> TRUE, log |-> "Cache set"]

\* set(key, data, ttl): writeFileSync throws when the directory is gone; the
\* catch logs the error and the metadata is not updated
set(d, fs, key, data, ttl, t) ==
    LET entry == [data |-> data, timestamp |-> t, ttl |-> EffectiveTtl(ttl)] IN
    IF ~d
    THEN [fs |-> fs, ok |-> FALSE, log |-> "Failed to write cache"]
    ELSE [fs |-> updateMetadata(d, [fs EXCEPT ![getCacheFilePath(key)] =
                                        JSONstringifyEntry(entry)], t),
          ok |-> TRUE, log |-> "Cache set"]

\* clear() that unlinks only the entries cleanup() would remove
clearStaleOnly(d, fs, t) ==
    IF ~d
    THEN [fs |-> fs, ret |-> Undefined, deletedCount |-> 0,
          log |-> "Failed to clear cache"]
    ELSE LET doomed == {f \in EntryFiles(fs) :
                          \/ ~Parsable(fs[f])
                          \/ t - JSONparseEntry(fs[f]).timestamp
                                > JSONparseEntry(fs[f]).ttl}
         IN [fs |-> updateMetadata(d, [f \in FileNames |->
                                      IF f \in doomed THEN NoFile ELSE fs[f]], t),
             ret |-> Undefined, deletedCount |-> Cardinality(doomed),
             log |-> "Cache cleared"]

\* clear(): void
clear(d, fs, t) ==
    IF ~d
    THEN [fs |-> fs, ret |-> Undefined, deletedCount |-> 0,
          log |-> "Failed to clear cache"]
    ELSE LET doomed == EntryFiles(fs) IN
         [fs |-> updateMetadata(d, [f \in FileNames |->
                                      IF f \in doomed THEN NoFile ELSE fs[f]], t),
          ret |-> Undefined, deletedCount |-> Cardinality(doomed),
          log |-> "Cache cleared"]

\* cleanup() whose expiry test is age >= ttl
cleanupAtTtl(d, fs, t) ==
    IF ~d
    THEN [fs |-> fs, ret |-> Undefined, deletedCount |-> 0,
          log |-> "Failed to cleanup cache"]
    ELSE LET doomed == {f \in EntryFiles(fs) :
                          \/ ~Parsable(fs[f])
                          \/ t - JSONparseEntry(fs[f]).timestamp
                                >= JSONparseEntry(fs[f]).ttl}
             swept == [f \in FileNames |-> IF f \in doomed THEN NoFile ELSE fs[f]]
         IN [fs |-> IF Cardinality(doomed) > 0
                    THEN updateMetadata(d, swept, t) ELSE swept,
             ret |-> Undefined, deletedCount |-> Cardinality(doomed),
             log |-> IF Cardinality(doomed) > 0 THEN "Cache cleanup" ELSE ""]

\* cleanup(): void
cleanup(d, fs, t) ==
    IF ~d
    THEN [fs |-> fs, ret |-> Undefined, deletedCount |-> 0,
          log |-> "Failed to cleanup cache"]
    ELSE LET doomed == {f \in EntryFiles(fs) :
                          \/ ~Parsable(fs[f])
                          \/ t - JSONparseEntry(fs[f]).timestamp
                                > JSONparseEntry(fs[f]).ttl}
             swept == [f \in FileNames |-> IF f \in doomed THEN NoFile ELSE fs[f]]
         IN [fs |-> IF Cardinality(doomed) > 0
                    THEN updateMetadata(d, swept, t) ELSE swept,
             ret |-> Undefined, deletedCount |-> Cardinality(doomed),
             log |-> IF Cardinality(doomed) > 0 THEN "Cache cleanup" ELSE ""]

\* getStats() that counts every file of the directory, .metadata.json too
getStatsCountsMetadata(d, fs) ==
    IF ~d THEN 0 ELSE Cardinality({f \in FileNames : existsSync(fs, f)})

\* getStats() that answers with the count kept in the metadata file
getStatsFromMetadata(d, fs) ==
    IF d /\ existsSync(fs, MetadataFile) THEN fs[MetadataFile].totalEntries ELSE 0

\* getStats().totalEntries
getStats(d, fs) ==
    IF ~d THEN 0 ELSE Cardinality(EntryFiles(fs))

\* a timer callback that logs and does not run cleanup()
scheduledCleanupLogsOnly(d, fs, t) ==
    [fs |-> fs, ret |-> Undefined, deletedCount |-> 0,
     log |-> "Running scheduled cache cleanup..."]

\* the setInterval callback: it logs and runs cleanup()
scheduledCleanup(d, fs, t) == cleanup(d, fs, t)

\* shutdown() that logs and leaves the timer running
shutdownKeepsTimer(interval) == interval

\* shutdown(): clearInterval when there is a timer; the field ends null
shutdown(interval) == IF interval THEN FALSE ELSE interval

\* a constructor that catches the failure of mkdirSync, logs it and goes on
constructorSwallows(present, mkdirOk) ==
    IF present \/ mkdirOk
    THEN [dirExists |-> TRUE, cleanupInterval |-> TRUE, thrown |-> "",
          log |-> IF present THEN "Cache initialized" ELSE "Created cache directory"]
    ELSE [dirExists |-> FALSE, cleanupInterval |-> TRUE, thrown |-> "",
          log |-> "Cache initialized"]

\* new CacheManager(): ensureCacheDir(), then startCleanupInterval(). present
\* says whether the directory is there already, mkdirOk whether mkdirSync can
\* create it; nothing catches what mkdirSync throws, so the constructor ends
\* there, before the timer is started
constructor(present, mkdirOk) ==
    IF present \/ mkdirOk
    THEN [dirExists |-> TRUE, cleanupInterval |-> TRUE, thrown |-> "",
          log |-> IF present THEN "Cache initialized" ELSE "Created cache directory"]
    ELSE [dirExists |-> FALSE, cleanupInterval |-> FALSE, thrown |-> "EACCES",
          log |-> ""]

\* getOrSet up to the await: the cached value is returned when it is not null
getOrSetLookup(fs, key, t) ==
    LET g == get(fs, key, t) IN
    [hit |-> g.ret # Null, ret |-> g.ret, fs |-> g.fs, log |-> g.log]

\* getOrSet that leaves a live entry written meanwhile alone and returns it
getOrSetResolvedFirstWins(d, fs, key, result, ttl, t) ==
    LET g == get(fs, key, t)
        s == set(d, fs, key, result, ttl, t)
    IN IF g.ret # Null
       THEN [ret |-> g.ret, fs |-> fs, ok |-> FALSE]
       ELSE [ret |-> result, fs |-> s.fs, ok |-> s.ok]

\* getOrSet after the producer resolved with result: set, then return result
getOrSetResolved(d, fs, key, result, ttl, t) ==
    LET s == set(d, fs, key, result, ttl, t) IN
    [ret |-> result, fs |-> s.fs, ok |-> s.ok]

\* getOrSet that caches the failure as a null entry before rethrowing
getOrSetRejectedCachesFailure(d, fs, key, err, ttl, t) ==
    [thrown |-> err, fs |-> set(d, fs, key, Null, ttl, t).fs]

\* getOrSet after the producer rejected: the await rethrows, nothing is written
getOrSetRejected(d, fs, key, err, ttl, t) ==
    [thrown |-> err, fs |-> fs]

\* ------------------------------------------------------- key generation
\* A parameter object is its members in insertion order, each a pair of a
\* name and a string value; NoParams is the omitted argument.
NoParams == [t |-> "undefined"]
Obj(members) == [t |-> "object", members |-> members]

Namespaces == {"tool", "resource"}
Identifiers == {"fetchTicker", "fetchMarkets"}
ParamArgs ==
    {NoParams,
     Obj(<<>>),
     Obj(<< <<"exchangeId", "binance">> >>),
     Obj(<< <<"exchangeId", "binance">>, <<"symbol", "BTC/USDT">> >>),
     Obj(<< <<"symbol", "BTC/USDT">>, <<"exchangeId", "binance">> >>)}

\* namespaces and identifiers that hold the "_" the key is joined with
JoinedNamespaces == {"tool", "tool_fetch"}
JoinedIdentifiers == {"fetch_Ticker", "Ticker"}

\* the argument triples generateCacheKey is called with
KeyTriples ==
    (Namespaces \X Identifiers \X ParamArgs)
    \cup (JoinedNamespaces \X JoinedIdentifiers
            \X {Obj(<< <<"exchangeId", "binance">> >>)})

\* JSON.stringify of the members of an object, in insertion order
RECURSIVE JSONstringifyMembers(_)
JSONstringifyMembers(members) ==
    IF members = <<>> THEN ""
    ELSE "\"" \o Head(members)[1] \o "\":\"" \o Head(members)[2] \o "\""
         \o (IF Len(members) > 1 THEN "," ELSE "")
         \o JSONstringifyMembers(Tail(members))

\* JSON.stringify({namespace, identifier, params: params || {}})
dataToHash(namespace, identifier, params) ==
    "{\"namespace\":\"" \o namespace \o "\",\"identifier\":\"" \o identifier
    \o "\",\"params\":{"
    \o JSONstringifyMembers(IF params.t = "undefined" THEN <<>> ELSE params.members)
    \o "}}"

\* crypto.createHash("sha256").update(text).digest("hex"): the digest is
\* written as a term over its input, one digest per input
sha256hex(text) == "sha256(" \o text \o ")"

\* generateCacheKey that digests the parameters alone
generateCacheKeyParamsOnly(namespace, identifier, params) ==
    namespace \o "_" \o identifier \o "_"
    \o sha256hex("{" \o JSONstringifyMembers(IF params.t = "undefined" THEN <<>>
                                               ELSE params.members) \o "}")

\* generateCacheKey that appends the time of the call to the key
generateCacheKeyStamped(namespace, identifier, params) ==
    namespace \o "_" \o identifier \o "_"
    \o sha256hex(dataToHash(namespace, identifier, params)) \o "_" \o ToString(now)

\* generateCacheKey(namespace, identifier, params)
generateCacheKey(namespace, identifier, params) ==
    namespace \o "_" \o identifier \o "_"
    \o sha256hex(dataToHash(namespace, identifier, params))

\* ------------------------------------------------------------ market tools
\* The handlers of the cached market tools. fetchTickers and fetchOHLCV are
\* written as fetchTicker is, with another producer and another key.
Tools == {"fetchMarkets", "fetchTicker"}

\* const MARKETS_CACHE_TTL = 7 days, longer than the default TTL
MARKETS_CACHE_TTL == 3

\* what the exchange answers with
Fetched == {Str("A"), Str("B")}

\* cache.generateCacheKey("tool", tool, {exchangeId, ...}): one key per tool
\* for the request followed
cacheKey(tool) == IF tool = "fetchMarkets" THEN "k1" ELSE "k2"

\* the ttl the handler hands to getOrSet
toolTtl(tool, cacheTTL) ==
    IF tool = "fetchMarkets" THEN <<MARKETS_CACHE_TTL>> ELSE cacheTTL

\* a handler up to its await: cache.delete under forceRefresh, then the lookup
\* of getOrSet under useCache; without useCache the exchange is asked at once
toolLookup(useCache, forceRefresh, fs, key, t) ==
    LET refreshed == IF forceRefresh THEN delete(fs, key) ELSE fs
        g == getOrSetLookup(refreshed, key, t)
    IN IF useCache
       THEN [hit |-> g.hit, ret |-> g.ret, fs |-> g.fs]
       ELSE [hit |-> FALSE, ret |-> Null, fs |-> refreshed]

\* a handler that stores what the exchange answered whatever useCache says
toolResolvedAlwaysCaches(useCache, d, fs, key, result, ttl, t) ==
    getOrSetResolved(d, fs, key, result, ttl, t)

\* a handler after the exchange answered: getOrSet goes on under useCache,
\* and without it the answer is returned as it is
toolResolved(useCache, d, fs, key, result, ttl, t) ==
    IF useCache
    THEN getOrSetResolved(d, fs, key, result, ttl, t)
    ELSE [ret |-> result, fs |-> fs, ok |-> FALSE]

\* ------------------------------------------------------- CcxtMcpServer
\* the accounts loaded from the configuration, and the exchange of each
exchangeInstances == [main |-> "binance", hedge |-> "kraken"]
AccountNames == {"main", "hedge", "nobody"}
Sides == {"buy", "sell"}
OrderResults == {Str("order1"), Str("order2")}

\* getExchangeInstance(accountName)
getExchangeInstance(accountName) ==
    IF accountName \in DOMAIN exchangeInstances
    THEN [ret |-> exchangeInstances[accountName], thrown |-> ""]
    ELSE [ret |-> Undefined,
          thrown |-> "Account configuration not found or failed to load for: "
                        \o accountName]

\* getFutureParams(exchangeId): the members added to the order's params
getFutureParams(exchangeId) ==
    CASE exchangeId = "binance" -> {<<"type", "future">>, <<"marginMode", "cross">>}
      [] exchangeId = "bybit" -> {<<"category", "linear">>}
      [] exchangeId = "okx" -> {<<"instType", "SWAP">>}
      [] exchangeId = "kucoin" -> {<<"type", "future">>}
      [] OTHER -> {}

\* executeFutureOrder's loop condition
loopContinues(attempt) == attempt < 3

\* a catch that gives up at no attempt
lastAttemptNever(attempt) == FALSE

\* executeFutureOrder's catch: the attempt after which the error is thrown
lastAttempt(attempt) == attempt = 2

\* executeFutureOrder's catch: the setTimeout delay after a failed attempt
retryDelay(attempt) == 1000 * (attempt + 1)

\* exchange ids callers pass, those of ccxt.exchanges among them
ExchangeIds == {"binance", "kraken", "okx", "nosuch"}
ccxtExchanges == {"binance", "kraken", "okx"}

\* the marketType argument: omitted, or given
MarketTypeArgs == {<<>>, <<"spot">>, <<"futures">>}

\* `${exchangeId}-${marketType}`, marketType defaulting to "spot"
instanceKey(exchangeId, marketType) ==
    exchangeId \o "-" \o (IF Len(marketType) = 1 THEN marketType[1] ELSE "spot")
InstanceKeys ==
    {instanceKey(exchangeId, marketType) :
        exchangeId \in ExchangeIds, marketType \in MarketTypeArgs}

\* getPublicExchangeInstance without the memo: a new instance at every call
getPublicExchangeInstanceFresh(instances, made, exchangeId, marketType, ok) ==
    LET key == instanceKey(exchangeId, marketType)
        instance == [id |-> exchangeId,
                     defaultType |-> IF Len(marketType) = 1 THEN marketType[1]
                                     ELSE "spot",
                     serial |-> made[key] + 1]
    IN IF exchangeId \notin ccxtExchanges
       THEN [instances |-> instances, made |-> made, ret |-> Undefined,
             thrown |-> "Unsupported exchange for public data: " \o exchangeId,
             log |-> "not found in ccxt.exchanges"]
       ELSE IF ~ok
       THEN [instances |-> instances, made |-> made, ret |-> Undefined,
             thrown |-> "E1", log |-> "Failed to create public CCXT instance"]
       ELSE [instances |-> [instances EXCEPT ![key] = instance],
             made |-> [made EXCEPT ![key] = @ + 1],
             ret |-> instance, thrown |-> "", log |-> "created"]

\* getPublicExchangeInstance(exchangeId, marketType), `ok` telling whether
\* new ccxt[exchangeId](options) succeeds; `made` counts the constructions
getPublicExchangeInstance(instances, made, exchangeId, marketType, ok) ==
    LET key == instanceKey(exchangeId, marketType)
        instance == [id |-> exchangeId,
                     defaultType |-> IF Len(marketType) = 1 THEN marketType[1]
                                     ELSE "spot",
                     serial |-> made[key] + 1]
    IN IF instances[key] # Undefined
       THEN [instances |-> instances, made |-> made, ret |-> instances[key],
             thrown |-> "", log |-> "memoised"]
       ELSE IF exchangeId \notin ccxtExchanges
       THEN [instances |-> instances, made |-> made, ret |-> Undefined,
             thrown |-> "Unsupported exchange for public data: " \o exchangeId,
             log |-> "not found in ccxt.exchanges"]
       ELSE IF ~ok
       THEN [instances |-> instances, made |-> made, ret |-> Undefined,
             thrown |-> "E1", log |-> "Failed to create public CCXT instance"]
       ELSE [instances |-> [instances EXCEPT ![key] = instance],
             made |-> [made EXCEPT ![key] = @ + 1],
             ret |-> instance, thrown |-> "", log |-> "created"]

\* the cacheDir argument: omitted, or given
CacheDirArgs == {<<>>, <<"/tmp/ccxt-cache">>}

\* a reference to the i-th CacheManager constructed
Ref(i) == [t |-> "CacheManager", v |-> i]

\* new CacheManager(cacheDir, defaultTTL) once the directory is ensured
newCacheManager(cacheDir, defaultTTL, c) ==
    [cacheDir |-> IF Len(cacheDir) = 1 THEN cacheDir[1] ELSE "~/.cache/ccxt-mcp",
     defaultTTL |-> IF Len(defaultTTL) = 1 THEN defaultTTL[1] ELSE DefaultTTL,
     cleanupInterval |-> c.cleanupInterval]

\* getCacheManager(cacheDir, defaultTTL); present and mkdirOk tell what
\* ensureCacheDir() meets when an instance is constructed
getCacheManager(instance, ms, cacheDir, defaultTTL, present, mkdirOk) ==
    LET c == constructor(present, mkdirOk) IN
    IF instance # 0
    THEN [cacheInstance |-> instance, managers |-> ms, ret |-> Ref(instance),
          thrown |-> "", log |-> "existing"]
    ELSE IF c.thrown # ""
    THEN [cacheInstance |-> 0, managers |-> ms, ret |-> Undefined,
          thrown |-> c.thrown, log |-> c.log]
    ELSE [cacheInstance |-> Len(ms) + 1,
          managers |-> Append(ms, newCacheManager(cacheDir, defaultTTL, c)),
          ret |-> Ref(Len(ms) + 1), thrown |-> "", log |-> c.log]

\* resetCacheManager() that forgets the instance without shutting it down
resetCacheManagerDropsOnly(instance, ms) ==
    [cacheInstance |-> 0, managers |-> ms]

\* resetCacheManager()
resetCacheManager(instance, ms) ==
    IF instance # 0
    THEN [cacheInstance |-> 0,
          managers |-> [ms EXCEPT ![instance].cleanupInterval = shutdown(@)]]
    ELSE [cacheInstance |-> instance, managers |-> ms]

\* no executeFutureOrder call was made yet
NoOrder ==
    [pc |-> "idle", account |-> "", side |-> "", attempt |-> 0, invoked |-> 0,
     params |-> {}, failures |-> <<>>, waits |-> <<>>, ret |-> Undefined,
     thrown |-> ""]

\* ------------------------------------------------------------------ state
NoWrite == [via |-> "none"]
Idle ==
    [pc |-> "idle", key |-> "", ttl |-> <<>>, rival |-> "none", dirty |-> FALSE,
     removed |-> FALSE]

\* the record kept in `last`
Op(op, key, call, ret, log) ==
    [op |-> op, key |-> key, call |-> call, ret |-> ret, log |-> log,
     produced |-> Undefined, rejected |-> "", thrown |-> "", count |-> 0,
     rival |-> "none", removed |-> FALSE]

\* a server that has served nothing yet; getCacheManager was never called
InitServer ==
    /\ order = NoOrder
    /\ publicExchangeInstances = [key \in InstanceKeys |-> Undefined]
    /\ constructed = [key \in InstanceKeys |-> 0]
    /\ cacheInstance = 0
    /\ managers = <<>>

Init ==
    /\ InitServer
    /\ now = 0
    /\ dirExists = TRUE                      \* ensureCacheDir()
    /\ files = [f \in FileNames |-> NoFile]
    /\ cleanupInterval = TRUE                \* startCleanupInterval()
    /\ calls = [c \in Calls |-> Idle]
    /\ written = [k \in Keys |-> NoWrite]
    /\ last = Op("constructor", "", 0, Undefined, "Cache initialized")

\* the state a new CacheManager() leaves, the directory there already or
\* not, creatable or not
InitNew ==
    \E present, mkdirOk \in BOOLEAN :
        LET c == constructor(present, mkdirOk) IN
        /\ InitServer
        /\ now = 0
        /\ dirExists = c.dirExists
        /\ files = [f \in FileNames |-> NoFile]
        /\ cleanupInterval = c.cleanupInterval
        /\ calls = [o \in Calls |-> Idle]
        /\ written = [k \in Keys |-> NoWrite]
        /\ last = [Op("constructor", "", 0, Undefined, c.log) EXCEPT
                     !.thrown = c.thrown]

\* the constructor threw: there is no instance to call
NoInstance == last.op = "constructor" /\ last.thrown # ""

\* ---------------------------------------------------------------- actions
\* time passes
Tick ==
    /\ now < MaxTime
    /\ now' = now + 1
    /\ last' = Op("tick", "", 0, Undefined, "")
    /\ UNCHANGED <<dirExists, files, cleanupInterval, calls, written, serverVars>>

\* a caller runs get(k)
Get(k) ==
    LET g == get(files, k, now) IN
    /\ files' = g.fs
    /\ last' = [Op("get", k, 0, g.ret, g.log) EXCEPT !.thrown = Caught("")]
    /\ UNCHANGED <<now, dirExists, cleanupInterval, calls, written, serverVars>>

\* bookkeeping for the calls suspended on key k when k is written meanwhile:
\* dirty after any write, rival = "wrote" after the write of another getOrSet
Overwritten(cs, k, writer) ==
    [c \in Calls |->
        IF c # writer /\ cs[c].pc = "awaiting" /\ cs[c].key = k
        THEN [cs[c] EXCEPT !.dirty = TRUE,
                           !.rival = IF writer \in Calls THEN "wrote" ELSE @]
        ELSE cs[c]]

\* a caller runs set(k, v, ttl)
Set(k, v, ttl) ==
    LET s == set(dirExists, files, k, v, ttl, now) IN
    /\ files' = s.fs
    /\ written' = [written EXCEPT ![k] =
                     IF s.ok THEN [via |-> "set", data |-> v, ttl |-> ttl,
                                   timestamp |-> now]
                     ELSE NoWrite]
    /\ calls' = IF s.ok THEN Overwritten(calls, k, 0) ELSE calls
    /\ last' = [Op("set", k, 0, Undefined, s.log) EXCEPT
                  !.thrown = Caught(writeFileSyncError(dirExists))]
    /\ UNCHANGED <<now, dirExists, cleanupInterval, serverVars>>

\* delete and clear that cancel the getOrSet calls suspended on the keys K
RemovedCancels(cs, K) ==
    [c \in Calls |->
        IF cs[c].pc = "awaiting" /\ cs[c].key \in K THEN Idle ELSE cs[c]]

\* the getOrSet calls as a delete or clear of the keys K leaves them: those
\* suspended on a key of K are noted as having had their key removed, and
\* stay suspended
Removed(cs, K) ==
    [c \in Calls |->
        IF cs[c].pc = "awaiting" /\ cs[c].key \in K
        THEN [cs[c] EXCEPT !.removed = TRUE]
        ELSE cs[c]]

\* a caller runs delete(k)
Delete(k) ==
    /\ files' = delete(files, k)
    /\ written' = [written EXCEPT ![k] = NoWrite]
    /\ calls' = Removed(calls, {k})
    /\ last' = [Op("delete", k, 0, Undefined,
                   IF existsSync(files, getCacheFilePath(k)) THEN "Cache deleted" ELSE "")
                EXCEPT !.thrown = Caught("")]
    /\ UNCHANGED <<now, dirExists, cleanupInterval, serverVars>>

\* a caller runs clear()
Clear ==
    LET r == clear(dirExists, files, now) IN
    /\ files' = r.fs
    /\ written' = [k \in Keys |-> NoWrite]
    /\ calls' = IF dirExists THEN Removed(calls, Keys) ELSE calls
    /\ last' = [Op("clear", "", 0, r.ret, r.log) EXCEPT
                  !.count = r.deletedCount,
                  !.thrown = Caught(readdirSyncError(dirExists))]
    /\ UNCHANGED <<now, dirExists, cleanupInterval, serverVars>>

\* a caller runs cleanup()
Cleanup ==
    LET r == cleanup(dirExists, files, now) IN
    /\ files' = r.fs
    /\ last' = [Op("cleanup", "", 0, r.ret, r.log) EXCEPT
                  !.count = r.deletedCount,
                  !.thrown = Caught(readdirSyncError(dirExists))]
    /\ UNCHANGED <<now, dirExists, cleanupInterval, calls, written, serverVars>>

\* the setInterval callback runs cleanup()
ScheduledCleanup ==
    LET r == scheduledCleanup(dirExists, files, now) IN
    /\ cleanupInterval
    /\ files' = r.fs
    /\ last' = [Op("scheduledCleanup", "", 0, r.ret, r.log) EXCEPT
                  !.count = r.deletedCount,
                  !.thrown = Caught(readdirSyncError(dirExists))]
    /\ UNCHANGED <<now, dirExists, cleanupInterval, calls, written, serverVars>>

\* a shutdown() that also drops the getOrSet calls waiting for their producer
ShutdownCancelsPending ==
    /\ cleanupInterval' = shutdown(cleanupInterval)
    /\ calls' = [c \in Calls |-> Idle]
    /\ last' = Op("shutdown", "", 0, Undefined, "Cache manager shutdown complete")
    /\ UNCHANGED <<now, dirExists, files, written, serverVars>>

\* a caller runs shutdown()
Shutdown ==
    /\ cleanupInterval' = shutdown(cleanupInterval)
    /\ last' = Op("shutdown", "", 0, Undefined, "Cache manager shutdown complete")
    /\ UNCHANGED <<now, dirExists, files, calls, written, serverVars>>

\* a caller runs getStats()
GetStats ==
    /\ last' = [Op("getStats", "", 0, Num(getStats(dirExists, files)), "") EXCEPT
                  !.thrown = Caught(readdirSyncError(dirExists))]
    /\ UNCHANGED <<now, dirExists, files, cleanupInterval, calls, written, serverVars>>

\* call c enters getOrSet(k, operation, ttl): it returns the cached value, or
\* invokes operation() and suspends at the await
GetOrSetStart(c, k, ttl) ==
    LET g == getOrSetLookup(files, k, now)
        racing == \E o \in Calls : o # c /\ calls[o].pc = "awaiting" /\ calls[o].key = k
    IN
    /\ calls[c].pc = "idle"
    /\ files' = g.fs
    /\ IF g.hit
       THEN /\ calls' = calls
            /\ last' = Op("getOrSet", k, c, g.ret, "returned cached")
       ELSE /\ calls' = [o \in Calls |->
                          IF o = c
                          THEN [pc |-> "awaiting", key |-> k, ttl |-> ttl,
                                rival |-> IF racing THEN "pending" ELSE "none",
                                dirty |-> FALSE, removed |-> FALSE]
                          ELSE IF calls[o].pc = "awaiting" /\ calls[o].key = k
                                  /\ calls[o].rival = "none"
                          THEN [calls[o] EXCEPT !.rival = "pending"]
                          ELSE calls[o]]
            /\ last' = Op("getOrSet", k, c, Undefined, "Executing operation")
    /\ UNCHANGED <<now, dirExists, cleanupInterval, written, serverVars>>

\* the producer of call c resolves with result: the call resumes, sets and returns
OperationResolves(c, result) ==
    LET k == calls[c].key
        r == getOrSetResolved(dirExists, files, k, result, calls[c].ttl, now)
    IN
    /\ calls[c].pc = "awaiting"
    /\ files' = r.fs
    /\ written' = [written EXCEPT ![k] =
                     IF r.ok THEN [via |-> "getOrSet", data |-> result,
                                   ttl |-> calls[c].ttl, timestamp |-> now]
                     ELSE NoWrite]
    /\ calls' = [(IF r.ok THEN Overwritten(calls, k, c) ELSE calls) EXCEPT ![c] = Idle]
    /\ last' = [Op("getOrSet", k, c, r.ret, "resolved") EXCEPT
                  !.produced = result, !.rival = calls[c].rival,
                  !.removed = calls[c].removed,
                  !.thrown = Caught(writeFileSyncError(dirExists))]
    /\ UNCHANGED <<now, dirExists, cleanupInterval, serverVars>>

\* the producer of call c rejects with err: the call rethrows it
OperationRejects(c, err) ==
    LET k == calls[c].key
        r == getOrSetRejected(dirExists, files, k, err, calls[c].ttl, now)
    IN
    /\ calls[c].pc = "awaiting"
    /\ files' = r.fs
    /\ calls' = [calls EXCEPT ![c] = Idle]
    /\ last' = [Op("getOrSet", k, c, Undefined, "rejected") EXCEPT
                  !.rejected = err, !.thrown = r.thrown]
    /\ UNCHANGED <<now, dirExists, cleanupInterval, written, serverVars>>

\* a caller runs generateCacheKey(namespace, identifier, params)
GenerateCacheKey(namespace, identifier, params) ==
    /\ last' = [input |-> <<namespace, identifier, params>>]
                @@ Op("generateCacheKey", "", 0,
                      Str(generateCacheKey(namespace, identifier, params)), "")
    /\ UNCHANGED <<now, dirExists, files, cleanupInterval, calls, written, serverVars>>

\* the record kept in `last` for a step of a tool handler
ToolOp(c, log, ret) ==
    [tool |-> calls[c].tool, useCache |-> calls[c].useCache,
     forceRefresh |-> calls[c].forceRefresh]
    @@ Op(calls[c].tool, calls[c].key, c, ret, log)

\* call c enters the handler of a tool; forceRefresh is an argument of
\* fetchMarkets and cacheTTL one of the other tools
ToolStart(c, tool, useCache, forceRefresh, cacheTTL) ==
    LET key == cacheKey(tool)
        l == toolLookup(useCache, forceRefresh, files, key, now)
        entered == [tool |-> tool, useCache |-> useCache, forceRefresh |-> forceRefresh]
                   @@ Op(tool, key, c, l.ret, "")
    IN
    /\ calls[c].pc = "idle"
    /\ tool = "fetchMarkets" \/ ~forceRefresh
    /\ tool # "fetchMarkets" \/ cacheTTL = <<>>
    /\ files' = l.fs
    /\ written' = IF forceRefresh THEN [written EXCEPT ![key] = NoWrite] ELSE written
    /\ IF l.hit
       THEN /\ calls' = calls
            /\ last' = [entered EXCEPT !.log = "returned cached"]
       ELSE /\ calls' = [calls EXCEPT ![c] =
                          [tool |-> tool, useCache |-> useCache,
                           forceRefresh |-> forceRefresh]
                          @@ [pc |-> IF useCache THEN "awaiting" ELSE "bypass",
                              key |-> key, ttl |-> toolTtl(tool, cacheTTL),
                              rival |-> "none", dirty |-> FALSE,
                              removed |-> FALSE]]
            /\ last' = [entered EXCEPT
                          !.ret = Undefined,
                          !.log = IF useCache THEN "Executing operation"
                                  ELSE "Bypass cache"]
    /\ UNCHANGED <<now, dirExists, cleanupInterval, serverVars>>

\* the exchange answers call c: the handler returns the answer, cached first
\* under useCache
ToolResolves(c, result) ==
    LET k == calls[c].key
        r == toolResolved(calls[c].useCache, dirExists, files, k, result,
                          calls[c].ttl, now)
    IN
    /\ calls[c].pc \in {"awaiting", "bypass"}
    /\ files' = r.fs
    /\ written' = IF r.ok
                  THEN [written EXCEPT ![k] =
                          [via |-> "getOrSet", data |-> result,
                           ttl |-> calls[c].ttl, timestamp |-> now]]
                  ELSE written
    /\ calls' = [(IF r.ok THEN Overwritten(calls, k, c) ELSE calls) EXCEPT ![c] = Idle]
    /\ last' = [ToolOp(c, "resolved", r.ret) EXCEPT !.produced = result]
    /\ UNCHANGED <<now, dirExists, cleanupInterval, serverVars>>

\* a handler that stores the failure of the exchange under the request's key
ToolRejectsCachesFailure(c, err) ==
    LET k == calls[c].key
        s == set(dirExists, files, k, Str(err), calls[c].ttl, now)
    IN
    /\ calls[c].pc \in {"awaiting", "bypass"}
    /\ files' = s.fs
    /\ calls' = [calls EXCEPT ![c] = Idle]
    /\ last' = [ToolOp(c, "rejected", [t |-> "isError", v |-> err]) EXCEPT
                  !.rejected = err]
    /\ UNCHANGED <<now, dirExists, cleanupInterval, written, serverVars>>

\* the exchange fails call c: the catch of the handler answers isError
ToolRejects(c, err) ==
    /\ calls[c].pc \in {"awaiting", "bypass"}
    /\ calls' = [calls EXCEPT ![c] = Idle]
    /\ last' = [ToolOp(c, "rejected", [t |-> "isError", v |-> err]) EXCEPT
                  !.rejected = err]
    /\ UNCHANGED <<now, dirExists, files, cleanupInterval, written, serverVars>>

\* an entry file is truncated or damaged behind the cache's back
CorruptEntryFile(k) ==
    /\ existsSync(files, getCacheFilePath(k))
    /\ files[getCacheFilePath(k)] # Garbage
    /\ files' = [files EXCEPT ![getCacheFilePath(k)] = Garbage]
    /\ written' = [written EXCEPT ![k] = NoWrite]
    /\ last' = Op("corrupt", k, 0, Undefined, "")
    /\ UNCHANGED <<now, dirExists, cleanupInterval, calls, serverVars>>

\* the cache directory is deleted behind the cache's back
RemoveCacheDir ==
    /\ dirExists
    /\ dirExists' = FALSE
    /\ files' = [f \in FileNames |-> NoFile]
    /\ written' = [k \in Keys |-> NoWrite]
    /\ last' = Op("rmdir", "", 0, Undefined, "")
    /\ UNCHANGED <<now, cleanupInterval, calls, serverVars>>

\* the operations of the cache over keys K, calls C and values V
Step(K, C, V) ==
    \/ Tick
    \/ \E k \in K : Get(k)
    \/ \E k \in K, v \in V, ttl \in TtlArgs : Set(k, v, ttl)
    \/ \E k \in K : Delete(k)
    \/ Clear
    \/ Cleanup
    \/ \E c \in C, k \in K, ttl \in TtlArgs : GetOrSetStart(c, k, ttl)
    \/ \E c \in C, result \in V : OperationResolves(c, result)
    \/ \E c \in C, err \in Errors : OperationRejects(c, err)
    \/ \E k \in K : CorruptEntryFile(k)
    \/ RemoveCacheDir

\* callers racing on one key, with every value
Next == Step({"k1"}, Calls, DataValues)
Spec == Init /\ [][Next]_vars

\* the whole directory: two keys, one call in flight
NextSweep == Step(Keys, {1}, {Str("A")})
SpecSweep == Init /\ [][NextSweep]_vars

\* the life of one instance, from new CacheManager() on: one key, the hourly
\* timer and shutdown(). setInterval keeps firing while the timer is set, so
\* the callback is taken again and again until shutdown() clears it
NextTimer ==
    \/ ~NoInstance /\ Tick
    \/ ~NoInstance /\ Get("k1")
    \/ ~NoInstance /\ \E ttl \in TtlArgs : Set("k1", Str("A"), ttl)
    \/ ~NoInstance /\ Delete("k1")
    \/ ~NoInstance /\ Clear
    \/ ~NoInstance /\ Cleanup
    \/ ~NoInstance /\ ScheduledCleanup
    \/ ~NoInstance /\ Shutdown
    \/ ~NoInstance /\ CorruptEntryFile("k1")
    \/ ~NoInstance /\ RemoveCacheDir
SpecTimer == InitNew /\ [][NextTimer]_vars /\ WF_vars(ScheduledCleanup)

\* keys generated while the cache changes underneath
NextKeys ==
    \/ \E triple \in KeyTriples : GenerateCacheKey(triple[1], triple[2], triple[3])
    \/ Tick
    \/ \E ttl \in TtlArgs : Set("k1", Str("A"), ttl)
    \/ Get("k1")
    \/ Delete("k1")
    \/ RemoveCacheDir
SpecKeys == Init /\ [][NextKeys]_vars

\* the market tools called one request after the other, each with its own
\* arguments
NextTools ==
    \/ Tick
    \/ \E tool \in Tools, useCache \in BOOLEAN, forceRefresh \in BOOLEAN,
          cacheTTL \in TtlArgs :
          ToolStart(1, tool, useCache, forceRefresh, cacheTTL)
    \/ \E result \in Fetched : ToolResolves(1, result)
    \/ \E err \in Errors : ToolRejects(1, err)
SpecTools == Init /\ [][NextTools]_vars

\* one key and one getOrSet call, with shutdown() called at any moment
NextShutdown ==
    \/ Step({"k1"}, {1}, {Str("A"), Str("B")})
    \/ Shutdown
SpecShutdown == Init /\ [][NextShutdown]_vars

\* the producer of call c settles, and the call stays suspended all the same
SettlesAndWaits(c) ==
    /\ calls[c].pc = "awaiting"
    /\ last' = Op("getOrSet", calls[c].key, c, Undefined, "settled")
    /\ UNCHANGED <<now, dirExists, files, cleanupInterval, calls, written, serverVars>>

\* the producer of call c settles: it resolves with a value or rejects
Settles(c) ==
    \/ \E result \in {Str("A")} : OperationResolves(c, result)
    \/ \E err \in {"E1"} : OperationRejects(c, err)

\* two getOrSet calls on one key among the other operations; a producer that
\* was invoked settles sooner or later
NextSettle ==
    \/ Tick
    \/ Get("k1")
    \/ Set("k1", Str("B"), <<1>>)
    \/ Delete("k1")
    \/ Clear
    \/ Cleanup
    \/ \E c \in Calls : GetOrSetStart(c, "k1", <<1>>)
    \/ \E c \in Calls : Settles(c)
SpecSettle ==
    Init /\ [][NextSettle]_vars /\ \A c \in Calls : WF_vars(Settles(c))

\* the whole directory, with callers asking for the statistics
NextStats == NextSweep \/ GetStats
SpecStats == Init /\ [][NextStats]_vars

\* a caller runs executeFutureOrder(accountName, {side, ...}): the account's
\* exchange is looked up and createOrder is invoked for the first time
ExecuteFutureOrder(accountName, side) ==
    LET exchange == getExchangeInstance(accountName) IN
    /\ order.pc \in {"idle", "returned", "thrown"}
    /\ order' =
          IF exchange.thrown # ""
          THEN [NoOrder EXCEPT !.pc = "thrown", !.account = accountName,
                               !.side = side, !.thrown = exchange.thrown]
          ELSE IF loopContinues(0)
          THEN [NoOrder EXCEPT !.pc = "creating", !.account = accountName,
                               !.side = side, !.invoked = 1,
                               !.params = getFutureParams(exchange.ret)]
          ELSE [NoOrder EXCEPT !.pc = "returned", !.account = accountName,
                               !.side = side]
    /\ UNCHANGED <<cacheVars, publicExchangeInstances, constructed,
                   cacheInstance, managers>>

\* createOrder resolves: executeFutureOrder returns its result
CreateOrderResolves(result) ==
    /\ order.pc = "creating"
    /\ order' = [order EXCEPT !.pc = "returned", !.ret = result]
    /\ UNCHANGED <<cacheVars, publicExchangeInstances, constructed,
                   cacheInstance, managers>>

\* createOrder rejects: the catch throws at the last attempt and sleeps
\* otherwise
CreateOrderRejects(err) ==
    /\ order.pc = "creating"
    /\ order' =
          IF lastAttempt(order.attempt)
          THEN [order EXCEPT !.pc = "thrown", !.thrown = err,
                             !.failures = Append(@, err)]
          ELSE [order EXCEPT !.pc = "sleeping",
                             !.failures = Append(@, err),
                             !.waits = Append(@, retryDelay(order.attempt))]
    /\ UNCHANGED <<cacheVars, publicExchangeInstances, constructed,
                   cacheInstance, managers>>

\* the setTimeout of the catch fires: attempt++ and the loop goes round
TimeoutElapses ==
    /\ order.pc = "sleeping"
    /\ order' =
          IF loopContinues(order.attempt + 1)
          THEN [order EXCEPT !.pc = "creating", !.attempt = @ + 1,
                             !.invoked = @ + 1]
          ELSE [order EXCEPT !.pc = "returned", !.attempt = @ + 1,
                             !.ret = Undefined]
    /\ UNCHANGED <<cacheVars, publicExchangeInstances, constructed,
                   cacheInstance, managers>>

\* executeFutureOrder calls, one after the other, the exchange answering or
\* failing each createOrder
NextOrder ==
    \/ \E accountName \in AccountNames, side \in Sides :
          ExecuteFutureOrder(accountName, side)
    \/ \E result \in OrderResults : CreateOrderResolves(result)
    \/ \E err \in Errors : CreateOrderRejects(err)
    \/ TimeoutElapses
SpecOrder == Init /\ [][NextOrder]_vars

\* a caller runs getPublicExchangeInstance(exchangeId, marketType)
GetPublicExchangeInstance(exchangeId, marketType, ok) ==
    LET g == getPublicExchangeInstance(publicExchangeInstances, constructed,
                                       exchangeId, marketType, ok)
    IN
    /\ publicExchangeInstances' = g.instances
    /\ constructed' = g.made
    /\ last' = [Op("getPublicExchangeInstance",
                   instanceKey(exchangeId, marketType), 0, g.ret, g.log)
                EXCEPT !.thrown = g.thrown]
    /\ UNCHANGED <<now, dirExists, files, cleanupInterval, calls, written,
                   order, cacheInstance, managers>>

\* callers asking for public instances, constructions failing now and then
NextExchanges ==
    \E exchangeId \in ExchangeIds, marketType \in MarketTypeArgs, ok \in BOOLEAN :
        GetPublicExchangeInstance(exchangeId, marketType, ok)
SpecExchanges == Init /\ [][NextExchanges]_vars

\* a caller runs getCacheManager(cacheDir, defaultTTL)
GetCacheManager(cacheDir, defaultTTL, present, mkdirOk) ==
    LET g == getCacheManager(cacheInstance, managers, cacheDir, defaultTTL,
                             present, mkdirOk)
    IN
    /\ cacheInstance # 0 \/ Len(managers) < MaxManagers
    /\ cacheInstance' = g.cacheInstance
    /\ managers' = g.managers
    /\ last' = [input |-> <<cacheDir, defaultTTL>>]
                @@ [Op("getCacheManager", "", 0, g.ret, g.log)
                    EXCEPT !.thrown = g.thrown]
    /\ UNCHANGED <<now, dirExists, files, cleanupInterval, calls, written,
                   order, publicExchangeInstances, constructed>>

\* a caller runs resetCacheManager()
ResetCacheManager ==
    LET r == resetCacheManager(cacheInstance, managers) IN
    /\ cacheInstance' = r.cacheInstance
    /\ managers' = r.managers
    /\ last' = Op("resetCacheManager", "", 0, Undefined,
                  IF cacheInstance # 0 THEN "Cache manager shutdown complete" ELSE "")
    /\ UNCHANGED <<now, dirExists, files, cleanupInterval, calls, written,
                   order, publicExchangeInstances, constructed>>

\* a caller that got manager i from getCacheManager runs its shutdown()
ManagerShutdown(i) ==
    /\ i \in DOMAIN managers
    /\ managers' = [managers EXCEPT ![i].cleanupInterval = shutdown(@)]
    /\ last' = Op("shutdown", "", 0, Undefined, "Cache manager shutdown complete")
    /\ UNCHANGED <<now, dirExists, files, cleanupInterval, calls, written,
                   order, publicExchangeInstances, constructed, cacheInstance>>

\* the singleton accessor and its reset, called in any order
NextSingleton ==
    \/ \E cacheDir \in CacheDirArgs, defaultTTL \in TtlArgs,
          present \in BOOLEAN, mkdirOk \in BOOLEAN :
          GetCacheManager(cacheDir, defaultTTL, present, mkdirOk)
    \/ ResetCacheManager
    \/ \E i \in 1..MaxManagers : ManagerShutdown(i)
SpecSingleton == Init /\ [][NextSingleton]_vars

\* ------------------------------------------------------------ properties
\* the entry stored in an entry file that parses
EntryOf(k) == JSONparseEntry(files[getCacheFilePath(k)])
HasEntry(k) ==
    /\ existsSync(files, getCacheFilePath(k))
    /\ Parsable(files[getCacheFilePath(k)])

\* C1: a get(k) that follows a successful set(k, V, T) with T > 0, with no
\* delete, clear or damage of k in between and at most T after the set,
\* returns V; V is the data of the most recent set on k.
C1_RoundTrip ==
    \A k \in Keys :
        ( /\ last.op = "get" /\ last.key = k
          /\ written[k] # NoWrite
          /\ Len(written[k].ttl) = 1 /\ written[k].ttl[1] > 0
          /\ now - written[k].timestamp <= written[k].ttl[1] )
        => last.ret = written[k].data

\* a get, one time unit after the set it reads, returns a value that is not null
C1_Witness ==
    /\ last.op = "get" /\ last.key = "k1"
    /\ written["k1"] # NoWrite /\ written["k1"].via = "set"
    /\ written["k1"].ttl = <<1>> /\ now = written["k1"].timestamp + 1
    /\ last.ret = Str("B")

\* C2: a get(k) that finds a parsable entry older than its ttl returns null
\* and leaves no entry file for k.
C2_ExpiredGetPurges ==
    [][\A k \in Keys :
        ( /\ last'.op = "get" /\ last'.key = k
          /\ HasEntry(k)
          /\ now - EntryOf(k).timestamp > EntryOf(k).ttl )
        => ( /\ last'.ret = Null
             /\ ~existsSync(files', getCacheFilePath(k)) )]_vars

\* a get has just purged an expired entry that a set had written
C2_Witness ==
    /\ last.op = "get" /\ last.key = "k1" /\ last.log = "Cache expired"
    /\ last.ret = Null
    /\ written["k1"] # NoWrite /\ written["k1"].data # Null
    /\ ~existsSync(files, getCacheFilePath("k1"))

\* the ttl a caller asked for: the argument, or the default when omitted
RequestedTtl(ttl) == IF Len(ttl) = 1 THEN ttl[1] ELSE DefaultTTL

\* the step that led here is a getOrSet call reaching its cache lookup
EnteredGetOrSet(l) ==
    l.op = "getOrSet" /\ l.log \in {"returned cached", "Executing operation"}

\* C3: a getOrSet(k) that starts after an earlier getOrSet(k) has invoked its
\* producer, written and returned, within the ttl and with no delete or clear
\* in between, returns the same value without invoking the producer again.
C3_SecondCallHits ==
    \A k \in Keys :
        ( /\ EnteredGetOrSet(last) /\ last.key = k
          /\ written[k] # NoWrite /\ written[k].via = "getOrSet"
          /\ now - written[k].timestamp <= RequestedTtl(written[k].ttl) )
        => ( /\ last.log = "returned cached"
             /\ last.ret = written[k].data )

\* C4: a getOrSet(k) that finds a live, parsable entry returns its data, does
\* not invoke the producer and leaves the directory as it is.
C4_LiveEntryIsReturned ==
    [][\A k \in Keys :
        ( /\ EnteredGetOrSet(last') /\ last'.key = k
          /\ HasEntry(k)
          /\ now - EntryOf(k).timestamp <= EntryOf(k).ttl )
        => ( /\ last'.log = "returned cached"
             /\ last'.ret = EntryOf(k).data
             /\ calls' = calls
             /\ files' = files )]_vars

\* C5: when getOrSet returns the result R of its producer and the write did
\* not fail, the entry of the key holds R, created now, with the requested ttl.
C5_ResultIsCachedOnReturn ==
    \A k \in Keys :
        ( /\ last.op = "getOrSet" /\ last.log = "resolved" /\ last.key = k
          /\ written[k] # NoWrite )
        => ( /\ last.ret = last.produced
             /\ HasEntry(k)
             /\ EntryOf(k).data = last.ret
             /\ EntryOf(k).timestamp = now
             /\ EntryOf(k).ttl = RequestedTtl(written[k].ttl) )

\* C6: when the producer of a getOrSet call rejects, the call throws that
\* error and the step changes no file: no entry and not the metadata.
C6_FailureWritesNothing ==
    [][\A c \in Calls :
        ( /\ calls[c].pc = "awaiting" /\ calls'[c].pc = "idle"
          /\ last'.op = "getOrSet" /\ last'.call = c /\ last'.log = "rejected" )
        => ( /\ last'.thrown = last'.rejected
             /\ last'.thrown \in Errors
             /\ files' = files )]_vars

\* a call has thrown E2 while the other key holds an entry and the metadata
\* file exists, and the key of the call has no entry
C6_Witness ==
    /\ last.op = "getOrSet" /\ last.log = "rejected" /\ last.key = "k1"
    /\ last.thrown = "E2"
    /\ ~existsSync(files, getCacheFilePath("k1"))
    /\ HasEntry("k2")
    /\ existsSync(files, MetadataFile)

\* C7: nothing is locked across the producer call. While a call is suspended
\* on k and nothing was written to k since it started, a further getOrSet(k)
\* misses as well; and a call whose rival wrote k meanwhile still returns its
\* own producer's result and overwrites the rival's entry (last write wins).
C7_LastWriteWins ==
    /\ \A c \in Calls :
        (calls[c].pc = "awaiting" /\ ~calls[c].dirty)
        => ~getOrSetLookup(files, calls[c].key, now).hit
    /\ \A k \in Keys :
        ( /\ last.op = "getOrSet" /\ last.log = "resolved" /\ last.key = k
          /\ last.rival = "wrote" )
        => ( /\ last.ret = last.produced
             /\ dirExists => ( /\ HasEntry(k)
                               /\ EntryOf(k).data = last.produced
                               /\ EntryOf(k).timestamp = now ) )

\* two calls missed on k1; the rival wrote its result and returned, then this
\* call resolved with B: the entry holds B
C7_Witness ==
    /\ last.op = "getOrSet" /\ last.log = "resolved" /\ last.key = "k1"
    /\ last.rival = "wrote"
    /\ last.produced = Str("B")
    /\ HasEntry("k1") /\ EntryOf("k1").data = Str("B")

\* an entry file that cleanup must remove at time t: unparsable, or lapsed
Stale(content, t) ==
    \/ ~Parsable(content)
    \/ t - JSONparseEntry(content).timestamp > JSONparseEntry(content).ttl

\* C8: a cleanup() removes the entry files that are unparsable or lapsed at
\* that time and leaves every other entry file exactly as it was, whatever
\* gets, sets and suspended getOrSet calls surround it.
C8_CleanupRemovesExactlyStale ==
    [][last'.op = "cleanup" =>
        \A k \in Keys :
            LET f == getCacheFilePath(k) IN
            IF existsSync(files, f) /\ Stale(files[f], now)
            THEN files'[f] = NoFile
            ELSE files'[f] = files[f]]_vars

\* a cleanup, run while a getOrSet call is suspended, has removed one entry
\* and kept the live entry of the other key
C8_Witness ==
    /\ last.op = "cleanup" /\ last.count = 1
    /\ \E k \in Keys :
        /\ HasEntry(k)
        /\ now - EntryOf(k).timestamp <= EntryOf(k).ttl
        /\ now > EntryOf(k).timestamp
    /\ \E c \in Calls : calls[c].pc = "awaiting"

\* C9: right after clear() no entry file exists, every get is a miss,
\* getStats().totalEntries is 0, and the metadata file is still there.
C9_ClearEmptiesDirectory ==
    last.op = "clear" =>
        /\ EntryFiles(files) = {}
        /\ \A k \in Keys : get(files, k, now).ret = Null
        /\ getStats(dirExists, files) = 0
        /\ dirExists => existsSync(files, MetadataFile)

\* a clear has removed two entries, and the metadata file counts none
C9_Witness ==
    /\ last.op = "clear" /\ last.count = 2
    /\ EntryFiles(files) = {}
    /\ files[MetadataFile] =
          JSONstringifyMetadata([totalEntries |-> 0, lastCleanup |-> now])

\* C10: cleanup() and clear() return the number of entry files they removed.
C10_ReturnsRemovedCount ==
    (last.op \in {"cleanup", "clear"} /\ last.count > 0)
    => last.ret = Num(last.count)

\* the count the metadata file holds, -1 when there is no metadata file
MetadataCount ==
    IF existsSync(files, MetadataFile) THEN files[MetadataFile].totalEntries ELSE -1

\* C11: the number getStats() returns is the number of entry files that are in
\* the directory at the call, metadata file excluded, whatever count the
\* metadata file holds; the call throws nothing and leaves the directory alone
C11_StatsCountDirectory ==
    last.op = "getStats" =>
        /\ last.ret = Num(Cardinality({k \in Keys : existsSync(files, getCacheFilePath(k))}))
        /\ last.thrown = ""

\* getStats() answered 1 for a directory of one entry whose metadata says 2
C11_Witness ==
    /\ last.op = "getStats"
    /\ last.ret = Num(1)
    /\ MetadataCount = 2

\* C12: after each completed set, delete, clear and cleanup, the count in the
\* metadata file (once there is one) is the number of entry files then in the
\* directory
C12_MetadataFollowsMutations ==
    (last.op \in {"set", "delete", "clear", "cleanup"}
        /\ existsSync(files, MetadataFile)) =>
            MetadataCount = Cardinality(EntryFiles(files))

\* C13: delete(k) leaves the directory without the entry file of k and with
\* every other file as it was (nothing changes when k has no file), throws
\* nothing, a second delete(k) changes nothing more, and a get(k) after it
\* is absent
C13_DeleteIsIdempotent ==
    [][last'.op = "delete" =>
          LET k == last'.key IN
          /\ files' = [files EXCEPT ![getCacheFilePath(k)] = NoFile]
          /\ last'.thrown = ""
          /\ delete(files', k) = files'
          /\ get(files', k, now').ret = Null]_vars

\* delete("k1") removed a stored entry and left the entry of k2 in place
C13_Witness ==
    /\ last.op = "delete"
    /\ last.key = "k1"
    /\ last.log = "Cache deleted"
    /\ ~existsSync(files, getCacheFilePath("k1"))
    /\ HasEntry("k2")

C15_CacheIsOnlyAnOptimisation ==
    last.op = "getOrSet" =>
        /\ ~dirExists => last.log # "returned cached"
        /\ last.log = "resolved" =>
               /\ last.ret = last.produced
               /\ last.thrown = ""
        /\ last.log = "returned cached" =>
               /\ written[last.key] # NoWrite
               /\ last.ret = written[last.key].data
               /\ now - written[last.key].timestamp
                     <= RequestedTtl(written[last.key].ttl)

\* C16 as stated: a set that returns without an error has persisted the
\* entry, the directory recreated if need be
C16_SetPersistsOrFails ==
    (last.op = "set" /\ last.thrown = "") => HasEntry(last.key)

\* C16: a set that finds the directory gone does not recreate it and persists
\* nothing; it writes "Failed to write cache" to the error log and returns to
\* its caller without an error
C16_SetOnMissingDirectory ==
    [][(last'.op = "set" /\ ~dirExists) =>
          /\ ~dirExists'
          /\ files' = files
          /\ last'.log = "Failed to write cache"
          /\ last'.thrown = ""]_vars

\* set("k2", ...) ran with the directory gone and returned; a get finds nothing
C16_Witness ==
    /\ ~dirExists
    /\ last.op = "set"
    /\ last.key = "k2"
    /\ last.log = "Failed to write cache"
    /\ get(files, "k2", now).ret = Null

\* C17: a constructor that returns leaves the directory in place, created
\* when it was absent, and the sweep timer scheduled; a constructor that
\* cannot create the directory throws to its caller and leaves no timer
C17_ConstructionCreatesOrFails ==
    last.op = "constructor" =>
        /\ last.thrown = "" <=> dirExists
        /\ last.thrown = "" <=> cleanupInterval
        /\ last.log = "Created cache directory" => dirExists /\ cleanupInterval

\* the directory could not be created: the constructor threw, no timer runs
C17_Witness ==
    /\ last.op = "constructor"
    /\ last.thrown = "EACCES"
    /\ ~dirExists
    /\ ~cleanupInterval

\* C18: shutdown() leaves the instance without a timer, touches nothing on
\* disk and throws nothing; once the timer is gone it never comes back and no
\* timer-driven cleanup runs; a shutdown() without a timer changes nothing
C18_ShutdownCancelsSweep ==
    [][/\ last'.op = "shutdown" =>
            /\ ~cleanupInterval'
            /\ last'.thrown = ""
            /\ <<now, dirExists, files, calls, written>>'
                  = <<now, dirExists, files, calls, written>>
       /\ ~cleanupInterval =>
            /\ ~cleanupInterval'
            /\ last'.op # "scheduledCleanup"]_vars

\* an entry whose ttl has lapsed
Lapsed(k) ==
    /\ HasEntry(k)
    /\ now - EntryOf(k).timestamp > EntryOf(k).ttl

\* after shutdown() a lapsed entry lies in the directory, out of the sweep's reach
C18_Witness ==
    /\ last.op = "shutdown"
    /\ ~cleanupInterval
    /\ Lapsed("k1")

\* C19: an entry whose ttl has lapsed is eventually gone from the directory,
\* read again or not, unless shutdown() was called
C19_LapsedEntriesAreSwept ==
    Lapsed("k1") ~> (~Lapsed("k1") \/ ~cleanupInterval)

\* a firing of the timer removed the lapsed entry
C19_Witness ==
    /\ last.op = "scheduledCleanup"
    /\ last.count = 1
    /\ cleanupInterval
    /\ ~existsSync(files, getCacheFilePath("k1"))

Pairs(params) ==
    IF params.t = "undefined" THEN {}
    ELSE {params.members[i] : i \in 1..Len(params.members)}

\* C21: a generated key is the key of every parameter mapping that holds the
\* same name/value pairs in another insertion order, for the same namespace
\* and identifier
C21_KeyIgnoresInsertionOrder ==
    last.op = "generateCacheKey" =>
        \A params \in ParamArgs :
            Pairs(params) = Pairs(last.input[3]) =>
                Str(generateCacheKey(last.input[1], last.input[2], params)) = last.ret

C23_SetStoresSuppliedTtl ==
    (last.op = "set" /\ last.log = "Cache set") =>
        /\ HasEntry(last.key)
        /\ EntryOf(last.key).data = written[last.key].data
        /\ EntryOf(last.key).timestamp = now
        /\ EntryOf(last.key).ttl = RequestedTtl(written[last.key].ttl)

\* C24: a get(k) on an entry file that does not parse returns null, throws
\* nothing and leaves every file as it was, the unparsable one still counted
\* by getStats; such a file leaves the directory or becomes parsable only by
\* a cleanup, a clear, a write of its key or an explicit removal (delete, the
\* directory removed), never by a read
C24_CorruptFileSurvivesGet ==
    [][/\ (last'.op = "get" /\ files[getCacheFilePath(last'.key)] = Garbage) =>
            /\ last'.ret = Null
            /\ last'.thrown = ""
            /\ files' = files
            /\ getCacheFilePath(last'.key) \in EntryFiles(files')
            /\ getStats(dirExists', files') >= 1
       /\ \A k \in Keys :
            (files[getCacheFilePath(k)] = Garbage
                /\ files'[getCacheFilePath(k)] # Garbage) =>
                   \/ last'.op \in {"cleanup", "clear", "delete", "rmdir"}
                   \/ last'.op = "set" /\ last'.key = k
                   \/ last'.op = "getOrSet" /\ last'.key = k
                         /\ last'.log = "resolved"]_vars

\* get("k1") met an unparsable file, answered null and left the file there
C24_Witness ==
    /\ last.op = "get"
    /\ last.key = "k1"
    /\ last.log = "Failed to read cache"
    /\ last.ret = Null
    /\ files[getCacheFilePath("k1")] = Garbage

\* C25: a get(k) changes no file but the entry file of k, the metadata file
\* included, and the entry file of k only by removing it when its entry has
\* lapsed: a live entry stays as it is, timestamp and ttl included
C25_GetOnlyPurgesItsOwnEntry ==
    [][last'.op = "get" =>
          LET filePath == getCacheFilePath(last'.key) IN
          /\ \A f \in FileNames \ {filePath} : files'[f] = files[f]
          /\ dirExists' = dirExists
          /\ files'[filePath] # files[filePath] =>
                /\ files'[filePath] = NoFile
                /\ Parsable(files[filePath])
                /\ now - JSONparseEntry(files[filePath]).timestamp
                      > JSONparseEntry(files[filePath]).ttl]_vars

\* get("k1") read a live entry one tick old and left it, the entry of k2 and
\* the metadata in place
C25_Witness ==
    /\ last.op = "get"
    /\ last.key = "k1"
    /\ last.log = "Cache hit"
    /\ HasEntry("k1") /\ EntryOf("k1").timestamp = now - 1
    /\ HasEntry("k2")
    /\ existsSync(files, MetadataFile)

\* C26: what get(k) returns on a hit is never the null it returns on a miss,
\* a stored null included; and a getOrSet that goes on to invoke its producer
\* has found no live entry, a stored null being one
C26_StoredNullIsNotAMiss ==
    /\ (last.op = "get" /\ last.log = "Cache hit") => last.ret # Null
    /\ (last.op = "getOrSet" /\ last.log = "Executing operation") =>
           ~(HasEntry(last.key) /\ ~Lapsed(last.key))

\* C27: a set, delete, get or getOrSet on one key leaves the entry file of
\* every other key as it was: present or not, data, timestamp and ttl
C27_KeysAreIsolated ==
    [][last'.op \in {"set", "delete", "get", "getOrSet"} =>
          \A k \in Keys \ {last'.key} :
              files'[getCacheFilePath(k)] = files[getCacheFilePath(k)]]_vars

\* the entry of k1 was deleted; the entry of k2, written one tick before, is
\* still what it was
C27_Witness ==
    /\ last.op = "delete"
    /\ last.key = "k1"
    /\ last.log = "Cache deleted"
    /\ HasEntry("k2")
    /\ EntryOf("k2").timestamp = now - 1
    /\ EntryOf("k2").data = Str("A")

\* the files of the directory other than the metadata file
OtherThanMetadata(fs) == {f \in FileNames \ {MetadataFile} : existsSync(fs, f)}

\* C28: clear and cleanup never remove the metadata file, and the number they
\* report removed is a number of entry files; the count getStats returns and
\* the totalEntries a set, a clear or a cleanup has just written count the
\* files other than the metadata file
C28_MetadataIsNoEntry ==
    [][/\ (last'.op \in {"clear", "cleanup"} /\ existsSync(files, MetadataFile)) =>
            existsSync(files', MetadataFile)
       /\ last'.op \in {"clear", "cleanup"} =>
            last'.count = Cardinality(OtherThanMetadata(files) \ OtherThanMetadata(files'))
       /\ last'.op = "getStats" =>
            last'.ret = Num(Cardinality(OtherThanMetadata(files')))
       /\ (files'[MetadataFile] # files[MetadataFile]
             /\ last'.op \in {"set", "clear", "cleanup"}) =>
            files'[MetadataFile].totalEntries = Cardinality(OtherThanMetadata(files'))]_vars

\* a cleanup removed one of two entries: the metadata file is there and says 1
C28_Witness ==
    /\ last.op = "cleanup"
    /\ last.count = 1
    /\ existsSync(files, MetadataFile)
    /\ MetadataCount = 1
    /\ Cardinality(OtherThanMetadata(files)) = 1

\* C29: a tool called with useCache = false never answers from the cache: it
\* asks the exchange on every call and returns what the exchange answered,
\* and no entry file is read into the answer, written or rewritten; the one
\* change to the directory is the cache.delete of fetchMarkets under
\* forceRefresh
C29_BypassLeavesCacheAlone ==
    [][(last'.op \in Tools /\ ~last'.useCache) =>
          /\ last'.log \in {"Bypass cache", "resolved", "rejected"}
          /\ last'.log = "Bypass cache" =>
                /\ calls'[last'.call].pc = "bypass"
                /\ files' = IF last'.forceRefresh
                            THEN [files EXCEPT ![getCacheFilePath(last'.key)] = NoFile]
                            ELSE files
          /\ last'.log = "resolved" =>
                /\ last'.ret = last'.produced
                /\ files' = files
          /\ last'.log = "rejected" => files' = files]_vars

\* fetchTicker with useCache = false returned the fresh B while the cache
\* holds a live A for the same request, and left that entry as it was
C29_Witness ==
    /\ last.op = "fetchTicker"
    /\ ~last.useCache
    /\ last.log = "resolved"
    /\ last.ret = Str("B")
    /\ HasEntry("k2") /\ ~Lapsed("k2")
    /\ EntryOf("k2").data = Str("A")

\* C30: a fetchMarkets called with forceRefresh = true never answers from the
\* cache, and when it returns what the exchange answered, the entry of the
\* request holds that answer, written now with the ttl of seven days
C30_ForceRefreshUpdatesCache ==
    (last.op = "fetchMarkets" /\ last.forceRefresh) =>
        /\ last.log # "returned cached"
        /\ last.log = "resolved" =>
               /\ last.ret = last.produced
               /\ HasEntry(last.key)
               /\ EntryOf(last.key).data = last.produced
               /\ EntryOf(last.key).timestamp = now
               /\ EntryOf(last.key).ttl = MARKETS_CACHE_TTL

\* C31: when shutdown() has returned the timer is cleared and no entry file
\* whose ttl had lapsed at the call is left in the directory
C31_ShutdownSweeps ==
    last.op = "shutdown" =>
        /\ ~cleanupInterval
        /\ \A k \in Keys : ~Lapsed(k)

C33_ExpiryIsStrict ==
    [][\A k \in Keys :
        LET f == getCacheFilePath(k) IN
        HasEntry(k) =>
            /\ (last'.op = "get" /\ last'.key = k) =>
                  IF now - EntryOf(k).timestamp <= EntryOf(k).ttl
                  THEN last'.ret = EntryOf(k).data /\ files'[f] = files[f]
                  ELSE last'.ret = Null /\ files'[f] = NoFile
            /\ (last'.op = "cleanup" /\ dirExists) =>
                  IF now - EntryOf(k).timestamp <= EntryOf(k).ttl
                  THEN files'[f] = files[f]
                  ELSE files'[f] = NoFile]_vars

\* a get has hit an entry whose age is exactly its ttl of one tick or more
C33_Witness ==
    /\ last.op = "get" /\ last.key = "k1" /\ last.log = "Cache hit"
    /\ HasEntry("k1")
    /\ EntryOf("k1").ttl > 0
    /\ now - EntryOf("k1").timestamp = EntryOf("k1").ttl
    /\ last.ret = EntryOf("k1").data

\* C34: delete and clear do not cancel a getOrSet that waits for its
\* producer: the call is still waiting, on the same key and ttl, after the
\* delete or clear; and when its producer resolves afterwards the call returns
\* the result and writes it, so the key has an entry again
C34_RemovalDoesNotCancel ==
    [][\A c \in Calls :
        calls[c].pc = "awaiting" =>
            /\ last'.op \in {"delete", "clear"} =>
                  /\ calls'[c].pc = "awaiting"
                  /\ calls'[c].key = calls[c].key
                  /\ calls'[c].ttl = calls[c].ttl
            /\ ( /\ calls[c].removed
                 /\ last'.op = "getOrSet" /\ last'.call = c
                 /\ last'.log = "resolved" ) =>
                  /\ last'.ret = last'.produced
                  /\ dirExists =>
                        \A k \in Keys : calls[c].key = k =>
                            /\ HasEntry(k)'
                            /\ EntryOf(k)'.data = last'.produced
                            /\ EntryOf(k)'.timestamp = now]_vars

\* a getOrSet whose key was deleted or cleared while its producer was pending
\* has resolved, and its result is the entry of the key
C34_Witness ==
    /\ last.op = "getOrSet" /\ last.log = "resolved" /\ last.key = "k1"
    /\ last.removed
    /\ HasEntry("k1")
    /\ EntryOf("k1").data = last.produced
    /\ written["k1"] # NoWrite /\ written["k1"].via = "getOrSet"

\* C35: getOrSet waits for its producer and for nothing else: a call that
\* hits returns in the step of its lookup, without a producer; a call that
\* misses is suspended, and the step in which its producer settles ends it,
\* with the result or with the producer's error; so, producers settling, every
\* suspended call ends, whatever the other operations do meanwhile
C35_GetOrSetEndsWithProducer ==
    /\ [][\A c \in Calls :
            (last'.op = "getOrSet" /\ last'.call = c) =>
                IF calls[c].pc = "idle"
                THEN /\ last'.log \in {"returned cached", "Executing operation"}
                     /\ last'.log = "returned cached" =>
                            calls'[c].pc = "idle" /\ last'.produced = Undefined
                     /\ last'.log = "Executing operation" =>
                            calls'[c].pc = "awaiting"
                ELSE /\ last'.log \in {"resolved", "rejected"}
                     /\ calls'[c].pc = "idle"
                     /\ last'.log = "resolved" => last'.ret = last'.produced
                     /\ last'.log = "rejected" =>
                            last'.thrown = last'.rejected /\ last'.thrown # ""]_vars
    /\ \A c \in Calls : (calls[c].pc = "awaiting") ~> (calls[c].pc = "idle")

\* a call has ended with its producer's error while the other call is still
\* suspended on the same key
C35_Witness ==
    /\ last.op = "getOrSet" /\ last.call = 1 /\ last.log = "rejected"
    /\ last.thrown = "E1"
    /\ calls[1].pc = "idle"
    /\ calls[2].pc = "awaiting" /\ calls[2].key = "k1"

\* C36: when the exchange fails a market tool call, cached or bypassing, the
\* handler throws nothing and answers a result flagged isError that carries
\* the error; the step writes no file, and a request with the same arguments
\* made next finds no entry to return: it fetches again
C36_ToolFailureIsNotCached ==
    [][\A c \in Calls :
        ( /\ calls[c].pc \in {"awaiting", "bypass"}
          /\ last'.call = c /\ last'.log = "rejected" )
        => ( /\ last'.thrown = ""
             /\ last'.ret = [t |-> "isError", v |-> last'.rejected]
             /\ last'.rejected \in Errors
             /\ files' = files
             /\ ~toolLookup(calls[c].useCache, calls[c].forceRefresh, files',
                            calls[c].key, now).hit )]_vars

\* a cached fetchTicker has answered isError after the exchange failed, and
\* its key has no entry, while fetchMarkets' key holds one from before
C36_Witness ==
    /\ last.op = "fetchTicker" /\ last.log = "rejected" /\ last.useCache
    /\ last.ret = [t |-> "isError", v |-> "E1"]
    /\ last.thrown = ""
    /\ ~existsSync(files, getCacheFilePath(cacheKey("fetchTicker")))
    /\ HasEntry(cacheKey("fetchMarkets"))

\* C37: executeFutureOrder invokes createOrder at most three times per call,
\* and again only after a failed attempt and its wait, never after a success;
\* it returns the result of the attempt that succeeded, all attempts before
\* it having failed; after three failures it throws the third error, having
\* waited 1000 ms after the first and 2000 ms after the second and no more
C37_RetryIsBounded ==
    [][/\ order'.invoked <= 3
       /\ (order'.invoked > order.invoked /\ order.invoked > 0) =>
              /\ order.pc = "sleeping"
              /\ order'.invoked = order.invoked + 1
              /\ order'.invoked = Len(order.failures) + 1
       /\ (order.pc = "creating" /\ order'.pc = "returned") =>
              /\ order'.ret \in OrderResults
              /\ order'.invoked = Len(order'.failures) + 1
              /\ order'.invoked = order.invoked
       /\ order.pc = "returned" =>
              order'.pc # "returned" /\ order'.attempt = 0 /\ order'.invoked <= 1
       /\ order'.pc = "sleeping" =>
              /\ Len(order'.failures) \in {1, 2}
              /\ Len(order'.waits) = Len(order'.failures)
              /\ order'.waits[Len(order'.waits)] = 1000 * Len(order'.failures)
       /\ (order.pc = "creating" /\ order'.pc = "thrown") =>
              /\ order'.invoked = 3
              /\ Len(order'.failures) = 3
              /\ order'.thrown = order'.failures[3]
              /\ order'.waits = <<1000, 2000>>]_vars

\* three attempts failed, with E1, E2 and E1: the call threw E1 after
\* waiting 1000 ms and 2000 ms
C37_Witness ==
    /\ order.pc = "thrown"
    /\ order.invoked = 3
    /\ order.failures = <<"E1", "E2", "E1">>
    /\ order.thrown = "E1"
    /\ order.waits = <<1000, 2000>>

\* C38: getPublicExchangeInstance memoises per exchange and market type: no
\* key ever has more than one instance constructed, a call on a key that
\* holds an instance returns that instance and constructs nothing, a call
\* that throws (unsupported exchange, failed construction) stores nothing, and
\* a successful call on a key that holds none stores what it returns
C38_OneInstancePerPair ==
    [][\A key \in InstanceKeys :
        /\ constructed'[key] <= 1
        /\ (last'.op = "getPublicExchangeInstance" /\ last'.key # key) =>
              /\ publicExchangeInstances'[key] = publicExchangeInstances[key]
              /\ constructed'[key] = constructed[key]
        /\ (last'.op = "getPublicExchangeInstance" /\ last'.key = key) =>
              IF publicExchangeInstances[key] # Undefined
              THEN /\ last'.thrown = ""
                   /\ last'.ret = publicExchangeInstances[key]
                   /\ publicExchangeInstances'[key] = publicExchangeInstances[key]
                   /\ constructed'[key] = constructed[key]
              ELSE IF last'.thrown # ""
              THEN /\ publicExchangeInstances'[key] = Undefined
                   /\ constructed'[key] = constructed[key]
              ELSE /\ last'.ret # Undefined
                   /\ publicExchangeInstances'[key] = last'.ret
                   /\ constructed'[key] = constructed[key] + 1
                   /\ instanceKey(last'.ret.id, <<last'.ret.defaultType>>) = key]_vars

\* a later call for binance/spot got the instance an earlier call had made,
\* while no instance is stored for the unsupported exchange
C38_Witness ==
    /\ last.op = "getPublicExchangeInstance" /\ last.log = "memoised"
    /\ last.key = "binance-spot"
    /\ last.ret = publicExchangeInstances["binance-spot"]
    /\ last.ret.serial = 1
    /\ constructed["binance-spot"] = 1
    /\ publicExchangeInstances["nosuch-spot"] = Undefined

\* the managers whose sweep timer is scheduled
ActiveTimers(ms) == {i \in DOMAIN ms : ms[i].cleanupInterval}

\* C39: while the singleton is set, getCacheManager returns it and constructs
\* nothing, whatever its arguments; resetCacheManager clears the timer of the
\* instance and drops it; the getCacheManager after that constructs a manager
\* that did not exist before, from that call's arguments, and returns it; and
\* at no time does a manager other than the current singleton hold a timer
C39_SingletonUntilReset ==
    [][/\ (last'.op = "getCacheManager" /\ cacheInstance # 0) =>
              /\ last'.thrown = ""
              /\ last'.ret = Ref(cacheInstance)
              /\ cacheInstance' = cacheInstance
              /\ managers' = managers
       /\ (last'.op = "getCacheManager" /\ cacheInstance = 0
             /\ last'.thrown = "") =>
              /\ cacheInstance' \in DOMAIN managers' \ DOMAIN managers
              /\ last'.ret = Ref(cacheInstance')
              /\ managers'[cacheInstance'] =
                    newCacheManager(last'.input[1], last'.input[2],
                                    [cleanupInterval |-> TRUE])
              /\ \A i \in DOMAIN managers : managers'[i] = managers[i]
       /\ last'.op = "resetCacheManager" =>
              /\ cacheInstance' = 0
              /\ cacheInstance # 0 => ~managers'[cacheInstance].cleanupInterval
       /\ Cardinality(ActiveTimers(managers')) <= 1
       /\ ActiveTimers(managers') \subseteq {cacheInstance'}]_vars

\* after a reset a second manager is the singleton, with its timer set and
\* the first one's cleared, and a call with other arguments got that second
\* manager back
C39_Witness ==
    /\ last.op = "getCacheManager" /\ last.log = "existing"
    /\ cacheInstance = 2
    /\ last.ret = Ref(2)
    /\ ActiveTimers(managers) = {2}
    /\ managers[2] # newCacheManager(last.input[1], last.input[2],
                                     [cleanupInterval |-> TRUE])

====
